---------------------------- MODULE Spec2Model ----------------------------
(***************************************************************************)
(* A model of the field-extraction engine of src/app.py: the phone         *)
(* extractor (clean_phone, find_all_phones, best_phone), the name          *)
(* extractor (extract_fio_from_text) and the title extractor               *)
(* (extract_position_from_text), and the batch loop that runs them over    *)
(* the uploaded documents.                                                 *)
(*                                                                         *)
(* A Python string is a sequence of one-character strings.  Regular        *)
(* expressions are modelled by matchers that compute what re.finditer and  *)
(* re.search compute (leftmost match, greedy quantifiers, non-overlapping  *)
(* iteration).  An ASCII character is the string of itself; a character    *)
(* beyond ASCII is the string of its code point, "U0430" for U+0430.  The  *)
(* alphabet is ASCII, the Russian and Ukrainian letters the source names,  *)
(* the em dash and the white space of Unicode; a character outside it, as  *)
(* a file name's escapes can spell, is taken to be in no character class.  *)
(***************************************************************************)
EXTENDS Integers, Sequences, FiniteSets, TLC

VARIABLES
    text,       \* the input string of the operation under study; in a batch,
                \* the text of the document read last
    pc,         \* which operation has run
    phone,      \* result of clean_phone(text)
    matched,    \* the matches find_all_phones iterated over, in loop order
    phones,     \* result of find_all_phones(text)
    best,       \* result of best_phone(text)
    fio,        \* result of extract_fio_from_text(text)
    position,   \* result of extract_position_from_text(text)
    via,        \* the return statement extract_position_from_text left by
    uploaded,   \* the uploaded documents of the batch, each a name and its text
    rows,       \* the result records of the batch
    stats       \* the counts of the batch

vars ==
    <<text, pc, phone, matched, phones, best, fio, position, via,
      uploaded, rows, stats>>

(***************************************************************************)
(* Strings and character classes                                           *)
(***************************************************************************)

\* Python's None, a value no string equals.
None == <<"<None>">>

Range(s) == {s[i] : i \in 1..Len(s)}

Min(a, b) == IF a <= b THEN a ELSE b

\* \d
Digit == {"0", "1", "2", "3", "4", "5", "6", "7", "8", "9"}

\* \s, and what str.strip() takes off: the white space of ASCII (U+000B,
\* U+000C and U+001C to U+001F among it) and of the rest of Unicode
Whitespace ==
    {" ", "\n", "\t", "\r", "U000B", "U000C", "U001C", "U001D", "U001E",
     "U001F", "U0085", "U00A0", "U1680", "U2000", "U2001", "U2002", "U2003",
     "U2004", "U2005", "U2006", "U2007", "U2008", "U2009", "U200A", "U2028",
     "U2029", "U202F", "U205F", "U3000"}

\* the characters of a string literal
Chars(str) == [i \in 1..Len(str) |-> SubSeq(str, i, i)]

\* А-Я and Ё, І, Ї, Є, Ґ
CyrillicUpper ==
    <<"U0410", "U0411", "U0412", "U0413", "U0414", "U0415", "U0416",
      "U0417", "U0418", "U0419", "U041A", "U041B", "U041C", "U041D",
      "U041E", "U041F", "U0420", "U0421", "U0422", "U0423", "U0424",
      "U0425", "U0426", "U0427", "U0428", "U0429", "U042A", "U042B",
      "U042C", "U042D", "U042E", "U042F", "U0401", "U0406", "U0407",
      "U0404", "U0490">>

\* а-я and ё, і, ї, є, ґ, each the small letter of the capital at its place
CyrillicLower ==
    <<"U0430", "U0431", "U0432", "U0433", "U0434", "U0435", "U0436",
      "U0437", "U0438", "U0439", "U043A", "U043B", "U043C", "U043D",
      "U043E", "U043F", "U0440", "U0441", "U0442", "U0443", "U0444",
      "U0445", "U0446", "U0447", "U0448", "U0449", "U044A", "U044B",
      "U044C", "U044D", "U044E", "U044F", "U0451", "U0456", "U0457",
      "U0454", "U0491">>

\* [А-ЯЁІЇЄҐA-Z] and [а-яёіїєґa-z], a small letter at the place of its capital
UpperLetters == Chars("ABCDEFGHIJKLMNOPQRSTUVWXYZ") \o CyrillicUpper
LowerLetters == Chars("abcdefghijklmnopqrstuvwxyz") \o CyrillicLower

Upper == Range(UpperLetters)
Lower == Range(LowerLetters)

\* the em dash
EmDash == "U2014"

\* \w
WordChar == Digit \cup Upper \cup Lower \cup {"_"}

\* [\s\-\(\)\.] : what may stand between two digits of a phone number
PhoneSep == Whitespace \cup {"-", "(", ")", "."}

IsDigit(c) == c \in Digit

StartsWith(s, prefix) ==
    /\ Len(s) >= Len(prefix)
    /\ \A i \in 1..Len(prefix) : s[i] = prefix[i]

\* seq[:n] of Python
FirstN(seq, n) == SubSeq(seq, 1, Min(n, Len(seq)))

\* the literal lit at position i of t
LiteralAt(t, i, lit) ==
    /\ i >= 1
    /\ i + Len(lit) - 1 <= Len(t)
    /\ \A k \in 1..Len(lit) : t[i + k - 1] = lit[k]

\* sub in s of Python, for a non-empty sub
Contains(s, sub) == \E i \in 1..(Len(s) - Len(sub) + 1) : LiteralAt(s, i, sub)

\* the small letter of each capital
LowerOf ==
    [c \in Upper |->
        LowerLetters[CHOOSE k \in 1..Len(UpperLetters) : UpperLetters[k] = c]]

\* str.lower()
ToLowerChar(c) == IF c \in Upper THEN LowerOf[c] ELSE c

ToLower(s) == [i \in 1..Len(s) |-> ToLowerChar(s[i])]

\* str.strip()
RECURSIVE LStrip(_)
LStrip(s) == IF s # <<>> /\ s[1] \in Whitespace THEN LStrip(Tail(s)) ELSE s

RECURSIVE RStrip(_)
RStrip(s) ==
    IF s # <<>> /\ s[Len(s)] \in Whitespace
    THEN RStrip(SubSeq(s, 1, Len(s) - 1)) ELSE s

Strip(s) == LStrip(RStrip(s))

\* str.split(c) for a one-character separator
RECURSIVE SplitOn(_, _)
SplitOn(s, c) ==
    IF \A i \in 1..Len(s) : s[i] # c THEN <<s>>
    ELSE LET k == CHOOSE i \in 1..Len(s) :
                      s[i] = c /\ \A j \in 1..(i - 1) : s[j] # c
         IN  <<SubSeq(s, 1, k - 1)>> \o SplitOn(SubSeq(s, k + 1, Len(s)), c)

\* sep.join(parts)
RECURSIVE JoinWith(_, _)
JoinWith(parts, sep) ==
    IF parts = <<>> THEN <<>>
    ELSE IF Len(parts) = 1 THEN parts[1]
    ELSE parts[1] \o sep \o JoinWith(Tail(parts), sep)

\* [l.strip() for l in t.split('\n') if l.strip()]
StrippedLines(t) ==
    LET parts == SplitOn(t, "\n")
    IN  SelectSeq([i \in 1..Len(parts) |-> Strip(parts[i])], LAMBDA l : l # <<>>)

RECURSIVE Flatten(_)
Flatten(ss) == IF ss = <<>> THEN <<>> ELSE Head(ss) \o Flatten(Tail(ss))

(***************************************************************************)
(* clean_phone                                                             *)
(***************************************************************************)

\* re.sub(r'\++', '+', digits)
RECURSIVE CollapsePlus(_)
CollapsePlus(s) ==
    IF Len(s) < 2 THEN s
    ELSE IF s[1] = "+" /\ s[2] = "+" THEN CollapsePlus(Tail(s))
    ELSE <<s[1]>> \o CollapsePlus(Tail(s))

\* CleanDigits without lines 18-19: a '+' after the first character stays
CleanDigitsKeepInnerPlus(s) ==
    CollapsePlus(SelectSeq(s, LAMBDA c : c \in Digit \cup {"+"}))

\* lines 12-19: the cleaned digit/'+' string
CleanDigits(s) ==
    LET kept      == SelectSeq(s, LAMBDA c : c \in Digit \cup {"+"})
        collapsed == CollapsePlus(kept)
    IN  IF Len(collapsed) > 1 /\ "+" \in Range(Tail(collapsed))
        THEN <<collapsed[1]>> \o SelectSeq(Tail(collapsed), LAMBDA c : c # "+")
        ELSE collapsed

\* clean_phone with the 9-digit rule putting the '0' before the cleaned string
\* instead of before the digit core
clean_phone_zero_before_digits(s) ==
    LET digits == CleanDigits(s)
        core   == SelectSeq(digits, IsDigit)
    IN  IF Len(core) = 10 /\ StartsWith(core, <<"0">>) THEN core
        ELSE IF Len(core) = 12 /\ StartsWith(core, <<"3", "8", "0">>)
             THEN <<"+">> \o core
        ELSE IF Len(core) = 9 THEN <<"0">> \o digits
        ELSE IF 9 <= Len(core) /\ Len(core) <= 13 THEN digits
        ELSE None

\* clean_phone with the 12-digit rule missing
clean_phone_no_380_rule(s) ==
    LET digits == CleanDigits(s)
        core   == SelectSeq(digits, IsDigit)
    IN  IF Len(core) = 10 /\ StartsWith(core, <<"0">>) THEN core
        ELSE IF Len(core) = 9 THEN <<"0">> \o core
        ELSE IF 9 <= Len(core) /\ Len(core) <= 13 THEN digits
        ELSE None

clean_phone(s) ==
    LET digits == CleanDigits(s)
        core   == SelectSeq(digits, IsDigit)
    IN  IF Len(core) = 10 /\ StartsWith(core, <<"0">>) THEN core
        ELSE IF Len(core) = 12 /\ StartsWith(core, <<"3", "8", "0">>)
             THEN <<"+">> \o core
        ELSE IF Len(core) = 9 THEN <<"0">> \o core
        ELSE IF 9 <= Len(core) /\ Len(core) <= 13 THEN digits
        ELSE None

(***************************************************************************)
(* find_all_phones                                                         *)
(***************************************************************************)

\* re.sub(r'\s+', ' ', text)
RECURSIVE CollapseWhitespace(_)
CollapseWhitespace(s) ==
    IF s = <<>> THEN <<>>
    ELSE IF s[1] \in Whitespace
         THEN IF Len(s) > 1 /\ s[2] \in Whitespace
              THEN CollapseWhitespace(Tail(s))
              ELSE <<" ">> \o CollapseWhitespace(Tail(s))
    ELSE <<s[1]>> \o CollapseWhitespace(Tail(s))

\* \b at position i of t: between t[i-1] and t[i], the ends counting as non-word
WordBoundary(t, i) ==
    LET before == i > 1 /\ i - 1 <= Len(t) /\ t[i - 1] \in WordChar
        after  == i >= 1 /\ i <= Len(t) /\ t[i] \in WordChar
    IN  before # after

\* [\s\-\(\)\.]* from position i: the position of the first character it leaves
RECURSIVE SkipSep(_, _)
SkipSep(t, i) ==
    IF i <= Len(t) /\ t[i] \in PhoneSep THEN SkipSep(t, i + 1) ELSE i

\* n times [\s\-\(\)\.]*\d from position i: the position after the match, or 0.
\* A separator is no digit, so the greedy run never has to give a character back.
RECURSIVE SepDigits(_, _, _)
SepDigits(t, i, n) ==
    IF n = 0 THEN i
    ELSE LET j == SkipSep(t, i)
         IN  IF j <= Len(t) /\ t[j] \in Digit THEN SepDigits(t, j + 1, n - 1)
             ELSE 0

\* \d{n} from position i: the position after the match, or 0
RECURSIVE PlainDigits(_, _, _)
PlainDigits(t, i, n) ==
    IF n = 0 THEN i
    ELSE IF i <= Len(t) /\ t[i] \in Digit THEN PlainDigits(t, i + 1, n - 1)
    ELSE 0

\* The number of patterns of find_all_phones.
NumPatterns == 6

\* The match of pattern p of `patterns` that starts at position i of t: the
\* position after its last character, or 0 when there is none.
PatternMatchAt(t, i, p) ==
    CASE p = 1 ->   \* \+\s?380 then nine separated digits
            IF ~LiteralAt(t, i, <<"+">>) THEN 0
            ELSE LET j == IF i + 1 <= Len(t) /\ t[i + 1] \in Whitespace
                          THEN i + 2 ELSE i + 1
                 IN  IF LiteralAt(t, j, <<"3", "8", "0">>)
                     THEN SepDigits(t, j + 3, 9) ELSE 0
      [] p = 2 ->   \* \b380 then nine separated digits
            IF WordBoundary(t, i) /\ LiteralAt(t, i, <<"3", "8", "0">>)
            THEN SepDigits(t, i + 3, 9) ELSE 0
      [] p = 3 ->   \* \b0 then nine separated digits
            IF WordBoundary(t, i) /\ LiteralAt(t, i, <<"0">>)
            THEN SepDigits(t, i + 1, 9) ELSE 0
      [] p = 4 ->   \* \b\d then nine separated digits
            IF WordBoundary(t, i) /\ i <= Len(t) /\ t[i] \in Digit
            THEN SepDigits(t, i + 1, 9) ELSE 0
      [] p = 5 ->   \* \b\d{10}\b
            IF WordBoundary(t, i)
            THEN LET e == PlainDigits(t, i, 10)
                 IN  IF e # 0 /\ WordBoundary(t, e) THEN e ELSE 0
            ELSE 0
      [] p = 6 ->   \* \b\d{9}\b
            IF WordBoundary(t, i)
            THEN LET e == PlainDigits(t, i, 9)
                 IN  IF e # 0 /\ WordBoundary(t, e) THEN e ELSE 0
            ELSE 0

\* re.finditer(patterns[p], t), scanning from position i: the matches from left
\* to right, none overlapping the one before it
RECURSIVE FindIter(_, _, _)
FindIter(t, p, i) ==
    IF i > Len(t) THEN <<>>
    ELSE LET e == PatternMatchAt(t, i, p)
         IN  IF e # 0
             THEN <<[pat |-> p, start |-> i, raw |-> SubSeq(t, i, e - 1)]>>
                  \o FindIter(t, p, e)
             ELSE FindIter(t, p, i + 1)

\* the matches in the order the two nested loops of lines 60-61 visit them
RECURSIVE MatchesFrom(_, _)
MatchesFrom(t, p) ==
    IF p > NumPatterns THEN <<>>
    ELSE FindIter(t, p, 1) \o MatchesFrom(t, p + 1)

AllMatches(txt) == MatchesFrom(CollapseWhitespace(txt), 1)

\* lines 66-78: the candidate is kept
PassesFilters(p) ==
    LET digits_only == SelectSeq(p, IsDigit)
    IN  /\ ~(Len(digits_only) = 8
             /\ (StartsWith(digits_only, <<"1", "9">>)
                 \/ StartsWith(digits_only, <<"2", "0">>)))
        /\ Cardinality(Range(digits_only)) # 1
        /\ ~(Len(digits_only) > 13)

\* ProcessMatch putting a new candidate at the front of the list
ProcessMatchPrepend(candidates, m) ==
    LET p == clean_phone(m.raw)
    IN  IF p # None /\ p # <<>> /\ p \notin Range(candidates) /\ PassesFilters(p)
        THEN <<p>> \o candidates
        ELSE candidates

\* the body of the inner loop, lines 62-80
ProcessMatch(candidates, m) ==
    LET p == clean_phone(m.raw)
    IN  IF p # None /\ p # <<>> /\ p \notin Range(candidates) /\ PassesFilters(p)
        THEN Append(candidates, p)
        ELSE candidates

RECURSIVE ProcessMatches(_, _)
ProcessMatches(candidates, ms) ==
    IF ms = <<>> THEN candidates
    ELSE ProcessMatches(ProcessMatch(candidates, Head(ms)), Tail(ms))

find_all_phones(txt) == ProcessMatches(<<>>, AllMatches(txt))

(***************************************************************************)
(* best_phone                                                              *)
(***************************************************************************)

IsPriority(p) == StartsWith(p, <<"+", "3", "8", "0">>) \/ StartsWith(p, <<"0">>)

\* best_phone without the priority list of lines 90-92
best_phone_first(phs) == IF phs # <<>> THEN phs[1] ELSE None

\* best_phone with an empty string where line 94 has None
best_phone_or_empty(phs) ==
    LET priority_phones == SelectSeq(phs, IsPriority)
    IN  IF priority_phones # <<>> THEN priority_phones[1]
        ELSE IF phs # <<>> THEN phs[1] ELSE <<>>

best_phone_of(phs) ==
    LET priority_phones == SelectSeq(phs, IsPriority)
    IN  IF priority_phones # <<>> THEN priority_phones[1]
        ELSE IF phs # <<>> THEN phs[1] ELSE None

best_phone(txt) == best_phone_of(find_all_phones(txt))

(***************************************************************************)
(* extract_fio_from_text                                                   *)
(***************************************************************************)

\* The lines the search is restricted to (line 156).
SearchLines == 50

\* lines 167-178
stop_words ==
    { <<"U0440", "U0435", "U0437", "U044E", "U043C", "U0435">>,   \* резюме
      Chars("curriculum"),
      Chars("vitae"),
      Chars("email"),
      Chars("www"),
      Chars("http"),
      Chars("https"),
      <<"U0440", "U043E", "U0437", "U0433", "U043B", "U044F", "U0434",
        "U0430", "U0454">>,   \* розглядає
      <<"U0440", "U0430", "U0441", "U0441", "U043C", "U0430", "U0442",
        "U0440", "U0438", "U0432", "U0430", "U0435", "U0442">>,   \* рассматривает
      <<"U044F", "U043D", "U0432", "U0430", "U0440">>,   \* январ
      <<"U0444", "U0435", "U0432", "U0440", "U0430", "U043B">>,   \* феврал
      <<"U043C", "U0430", "U0440", "U0442">>,   \* март
      <<"U0430", "U043F", "U0440", "U0435", "U043B">>,   \* апрел
      <<"U043C", "U0430", "U0439">>,   \* май
      <<"U0438", "U044E", "U043D">>,   \* июн
      <<"U0438", "U044E", "U043B">>,   \* июл
      <<"U0430", "U0432", "U0433", "U0443", "U0441", "U0442">>,   \* август
      <<"U0441", "U0435", "U043D", "U0442", "U044F", "U0431", "U0440">>,   \* сентябр
      <<"U043E", "U043A", "U0442", "U044F", "U0431", "U0440">>,   \* октябр
      <<"U043D", "U043E", "U044F", "U0431", "U0440">>,   \* ноябр
      <<"U0434", "U0435", "U043A", "U0430", "U0431", "U0440">>,   \* декабр
      <<"U0441", "U0456", "U0447", "U043D", "U044F">>,   \* січня
      <<"U043B", "U044E", "U0442", "U043E", "U0433", "U043E">>,   \* лютого
      <<"U0431", "U0435", "U0440", "U0435", "U0437", "U043D", "U044F">>,   \* березня
      <<"U043A", "U0432", "U0456", "U0442", "U043D", "U044F">>,   \* квітня
      <<"U0442", "U0440", "U0430", "U0432", "U043D", "U044F">>,   \* травня
      <<"U0447", "U0435", "U0440", "U0432", "U043D", "U044F">>,   \* червня
      <<"U043B", "U0438", "U043F", "U043D", "U044F">>,   \* липня
      <<"U0441", "U0435", "U0440", "U043F", "U043D", "U044F">>,   \* серпня
      <<"U0432", "U0435", "U0440", "U0435", "U0441", "U043D", "U044F">>,   \* вересня
      <<"U0436", "U043E", "U0432", "U0442", "U043D", "U044F">>,   \* жовтня
      <<"U043B", "U0438", "U0441", "U0442", "U043E", "U043F", "U0430",
        "U0434", "U0430">>,   \* листопада
      <<"U0433", "U0440", "U0443", "U0434", "U043D", "U044F">>,   \* грудня
      Chars("january"),
      Chars("february"),
      Chars("march"),
      Chars("april"),
      Chars("may"),
      Chars("june"),
      Chars("july"),
      Chars("august"),
      Chars("september"),
      Chars("october"),
      Chars("november"),
      Chars("december"),
      <<"U043F", "U043E", "U043D", "U0435", "U0434", "U0435", "U043B",
        "U044C", "U043D", "U0438", "U043A">>,   \* понедельник
      <<"U0432", "U0442", "U043E", "U0440", "U043D", "U0438", "U043A">>,   \* вторник
      <<"U0441", "U0440", "U0435", "U0434", "U0430">>,   \* среда
      <<"U0447", "U0435", "U0442", "U0432", "U0435", "U0440", "U0433">>,   \* четверг
      <<"U043F", "U044F", "U0442", "U043D", "U0438", "U0446", "U0430">>,   \* пятница
      <<"U0441", "U0443", "U0431", "U0431", "U043E", "U0442", "U0430">>,   \* суббота
      <<"U0432", "U043E", "U0441", "U043A", "U0440", "U0435", "U0441",
        "U0435", "U043D", "U044C", "U0435">>,   \* воскресенье
      <<"U043F", "U043E", "U043D", "U0435", "U0434", "U0456", "U043B",
        "U043E", "U043A">>,   \* понеділок
      <<"U0432", "U0456", "U0432", "U0442", "U043E", "U0440", "U043E",
        "U043A">>,   \* вівторок
      <<"U0441", "U0435", "U0440", "U0435", "U0434", "U0430">>,   \* середа
      <<"U0447", "U0435", "U0442", "U0432", "U0435", "U0440">>,   \* четвер
      <<"U043F", "'", "U044F", "U0442", "U043D", "U0438", "U0446",
        "U044F">>,   \* п'ятниця
      <<"U0441", "U0443", "U0431", "U043E", "U0442", "U0430">>,   \* субота
      <<"U043D", "U0435", "U0434", "U0456", "U043B", "U044F">>,   \* неділя
      Chars("university"),
      <<"U0443", "U043D", "U0456", "U0432", "U0435", "U0440", "U0441",
        "U0438", "U0442", "U0435", "U0442">>,   \* університет
      <<"U0456", "U043D", "U0441", "U0442", "U0438", "U0442", "U0443",
        "U0442">>,   \* інститут
      Chars("institute"),
      <<"U0430", "U043A", "U0430", "U0434", "U0435", "U043C", "U0456",
        "U044F">>,   \* академія
      Chars("academy"),
      <<"U0448", "U043A", "U043E", "U043B", "U0430">>,   \* школа
      Chars("school"),
      <<"U043E", "U0441", "U0432", "U0456", "U0442", "U0430">>,   \* освіта
      <<"U043E", "U0431", "U0440", "U0430", "U0437", "U043E", "U0432",
        "U0430", "U043D", "U0438", "U0435">>,   \* образование
      Chars("education"),
      <<"U0434", "U043E", "U0441", "U0432", "U0456", "U0434">>,   \* досвід
      <<"U043E", "U043F", "U044B", "U0442">>,   \* опыт
      Chars("experience") }

\* lines 181-185
position_words ==
    { <<"U043C", "U0435", "U043D", "U0435", "U0434", "U0436", "U0435",
        "U0440">>,   \* менеджер
      Chars("manager"),
      <<"U0430", "U0434", "U043C", "U0456", "U043D", "U0456", "U0441",
        "U0442", "U0440", "U0430", "U0442", "U043E", "U0440">>,   \* адміністратор
      Chars("administrator"),
      <<"U043F", "U0440", "U043E", "U0434", "U0430", "U0432", "U0435",
        "U0446", "U044C">>,   \* продавець
      <<"U043F", "U0440", "U043E", "U0434", "U0430", "U0432", "U0435",
        "U0446">>,   \* продавец
      <<"U043A", "U043E", "U043D", "U0441", "U0443", "U043B", "U044C",
        "U0442", "U0430", "U043D", "U0442">>,   \* консультант
      <<"U0441", "U043F", "U0435", "U0446", "U0456", "U0430", "U043B",
        "U0456", "U0441", "U0442">>,   \* спеціаліст
      <<"U0441", "U043F", "U0435", "U0446", "U0438", "U0430", "U043B",
        "U0438", "U0441", "U0442">>,   \* специалист
      Chars("specialist"),
      <<"U043F", "U043E", "U043C", "U0456", "U0447", "U043D", "U0438",
        "U043A">>,   \* помічник
      <<"U043F", "U043E", "U043C", "U043E", "U0449", "U043D", "U0438",
        "U043A">>,   \* помощник
      <<"U043E", "U043F", "U0435", "U0440", "U0430", "U0442", "U043E",
        "U0440">>,   \* оператор
      Chars("operator"),
      <<"U0434", "U0438", "U0440", "U0435", "U043A", "U0442", "U043E",
        "U0440">>,   \* директор
      Chars("director"),
      <<"U043A", "U043E", "U043E", "U0440", "U0434", "U0438", "U043D",
        "U0430", "U0442", "U043E", "U0440">>,   \* координатор
      <<"U0440", "U0435", "U043A", "U0440", "U0443", "U0442", "U0435",
        "U0440">>,   \* рекрутер
      Chars("recruiter") }

\* re.search(r'@|https?://|www\.', line)
HasEmailOrUrl(line) ==
    \/ Contains(line, Chars("@"))
    \/ Contains(line, Chars("http://"))
    \/ Contains(line, Chars("https://"))
    \/ Contains(line, Chars("www."))

\* re.search(r'\.(com|ru|ua|org|net|gov)', line)
HasDomainSuffix(line) ==
    \E suffix \in {Chars(".com"), Chars(".ru"), Chars(".ua"), Chars(".org"),
                   Chars(".net"), Chars(".gov")} : Contains(line, suffix)

\* re.search(r'\b\d{2}\.\d{2}\.\d{4}\b|\b(199|200|201|202)\d\b', line)
HasDateOrYear(line) ==
    \E i \in 1..Len(line) :
        /\ WordBoundary(line, i)
        /\ \/ /\ PlainDigits(line, i, 2) # 0
              /\ LiteralAt(line, i + 2, <<".">>)
              /\ PlainDigits(line, i + 3, 2) # 0
              /\ LiteralAt(line, i + 5, <<".">>)
              /\ PlainDigits(line, i + 6, 4) # 0
              /\ WordBoundary(line, i + 10)
           \/ /\ \E y \in {Chars("199"), Chars("200"), Chars("201"),
                           Chars("202")} : LiteralAt(line, i, y)
              /\ PlainDigits(line, i + 3, 1) # 0
              /\ WordBoundary(line, i + 4)

\* lines 194-213: the line is skipped before any pattern is tried
LineExcluded(line) ==
    LET line_lower == ToLower(line)
    IN  \/ HasEmailOrUrl(line)
        \/ HasDomainSuffix(line)
        \/ HasDateOrYear(line)
        \/ Len(SelectSeq(line, IsDigit)) > 10
        \/ /\ \E word \in stop_words : StartsWith(line_lower, word)
           /\ ~\E pw \in position_words : Contains(line_lower, pw)

\* [a-z]* from position i: the position of the first character it leaves
RECURSIVE SkipLower(_, _)
SkipLower(t, i) ==
    IF i <= Len(t) /\ t[i] \in Lower THEN SkipLower(t, i + 1) ELSE i

\* \s* from position i: the position of the first character it leaves
RECURSIVE SkipWhitespace(_, _)
SkipWhitespace(t, i) ==
    IF i <= Len(t) /\ t[i] \in Whitespace THEN SkipWhitespace(t, i + 1) ELSE i

\* [A-Z][a-z]{minLower,} at position i: the position after it, or 0
CapWordAt(t, i, minLower) ==
    IF i >= 1 /\ i <= Len(t) /\ t[i] \in Upper
    THEN LET e == SkipLower(t, i + 1)
         IN  IF e - (i + 1) >= minLower THEN e ELSE 0
    ELSE 0

\* n capitalized words with \s+ between them, from position i: the words and
\* the position after the last, or the position 0.  A word's letters are no
\* white space and white space is no capital, so no greedy run gives back.
RECURSIVE CapWordsAt(_, _, _, _)
CapWordsAt(t, i, n, minLower) ==
    LET e == CapWordAt(t, i, minLower)
    IN  IF e = 0 THEN [end |-> 0, groups |-> <<>>]
        ELSE IF n = 1 THEN [end |-> e, groups |-> <<SubSeq(t, i, e - 1)>>]
        ELSE LET j == SkipWhitespace(t, e)
                 rest == IF j > e THEN CapWordsAt(t, j, n - 1, minLower)
                         ELSE [end |-> 0, groups |-> <<>>]
             IN  IF rest.end = 0 THEN rest
                 ELSE [end |-> rest.end,
                       groups |-> <<SubSeq(t, i, e - 1)>> \o rest.groups]

\* The number of patterns of fio_patterns (lines 159-164).
NumFioPatterns == 2

\* fio_patterns[p] at position i: three words of a capital and two or more
\* small letters, then two words of a capital and one or more small letters
FioPatternAt(t, i, p) ==
    IF p = 1 THEN CapWordsAt(t, i, 3, 2) ELSE CapWordsAt(t, i, 2, 1)

\* re.finditer(fio_patterns[p], line) from position i: the groups of each match
RECURSIVE FioFindIter(_, _, _)
FioFindIter(t, p, i) ==
    IF i > Len(t) THEN <<>>
    ELSE LET m == FioPatternAt(t, i, p)
         IN  IF m.end # 0 THEN <<m.groups>> \o FioFindIter(t, p, m.end)
             ELSE FioFindIter(t, p, i + 1)

RECURSIVE SumLen(_)
SumLen(words) == IF words = <<>> THEN 0 ELSE Len(Head(words)) + SumLen(Tail(words))

\* lines 235-262, for the words of a match on line `line` of index idx
Priority(words, idx, line) ==
    (100 - idx)
    + (IF Len(words) = 3 THEN 60
       ELSE IF Len(words) = 2
            THEN IF SumLen(words) >= 5 * Len(words) THEN 40
                 ELSE IF SumLen(words) >= 3 * Len(words) THEN 25
                 ELSE 10
       ELSE 0)
    + (IF idx < 3 THEN 100 ELSE IF idx < 10 THEN 50 ELSE 0)
    + (IF Len(line) < 60 THEN 30 ELSE 0)
    - (IF \E pw \in position_words : Contains(ToLower(line), pw) THEN 10 ELSE 0)

\* lines 223-232: the match is a candidate
WordsAccepted(words) ==
    /\ ~(Len(words) < 2)
    /\ ~\E k \in 1..Len(words) : ToLower(words[k]) \in stop_words
    /\ ~\A k \in 1..Len(words) : ToLower(words[k]) \in position_words

\* the candidates one line adds (lines 216-264), pattern by pattern
RECURSIVE LineCandidatesFrom(_, _, _)
LineCandidatesFrom(line, idx, p) ==
    IF p > NumFioPatterns THEN <<>>
    ELSE LET found == SelectSeq(FioFindIter(line, p, 1), WordsAccepted)
         IN  [k \in 1..Len(found) |->
                 [priority |-> Priority(found[k], idx, line),
                  fio      |-> JoinWith(found[k], <<" ">>),
                  idx      |-> idx,
                  line     |-> line]]
             \o LineCandidatesFrom(line, idx, p + 1)

\* the loop of lines 189-264 over lines[k..], line k having the index k - 1
RECURSIVE CandidatesFrom(_, _)
CandidatesFrom(lines, k) ==
    IF k > Len(lines) THEN <<>>
    ELSE (IF LineExcluded(lines[k]) THEN <<>>
          ELSE LineCandidatesFrom(lines[k], k - 1, 1))
         \o CandidatesFrom(lines, k + 1)

FioCandidates(lines) == CandidatesFrom(lines, 1)

\* lines 267-273: the first candidate of the stable sort by falling priority
BestFio(candidates) ==
    IF candidates = <<>> THEN None
    ELSE LET k == CHOOSE i \in 1..Len(candidates) :
                      /\ \A j \in 1..Len(candidates) :
                             candidates[j].priority <= candidates[i].priority
                      /\ \A j \in 1..(i - 1) :
                             candidates[j].priority < candidates[i].priority
         IN  candidates[k].fio

\* lines 152-156: the lines searched
FioSearchLines(txt) ==
    FirstN(StrippedLines(CollapseWhitespace(txt)), SearchLines)

extract_fio_from_text(txt) ==
    IF txt = <<>> THEN None
    ELSE BestFio(FioCandidates(FioSearchLines(txt)))

(***************************************************************************)
(* extract_position_from_text                                              *)
(***************************************************************************)

\* The characters of the text the label search reads (line 298).
LabelWindow == 4000

\* The lines the keyword fallback reads (line 332).
KeywordLines == 40

\* position_patterns (lines 284-294), each (?i) and of the shape
\*     (first)[:\s\-\u2014]+(.+?)(?:\n|$)    or
\*     (first)\s+(second)[:\s\-\u2014]*(.+?)(?:\n|$)
\* with `first` and `second` alternatives none of which begins another, so that
\* at most one of them matches at a position; minSep is 1 for + and 0 for *.
position_patterns ==
    << [first  |-> { <<"U0436", "U0435", "U043B", "U0430", "U0435",
                       "U043C", "U0430", "U044F">>,   \* желаемая
                     <<"U0431", "U0430", "U0436", "U0430", "U043D",
                       "U0430">> },   \* бажана
        second |-> { <<"U0434", "U043E", "U043B", "U0436", "U043D",
                       "U043E", "U0441", "U0442", "U044C">>,   \* должность
                     <<"U043F", "U043E", "U0441", "U0430", "U0434",
                       "U0430">> },   \* посада
        minSep |-> 0],
       [first  |-> { <<"U0434", "U043E", "U043B", "U0436", "U043D",
                       "U043E", "U0441", "U0442", "U044C">>,   \* должность
                     <<"U043F", "U043E", "U0441", "U0430", "U0434",
                       "U0430">> },   \* посада
        second |-> {},
        minSep |-> 1],
       [first  |-> { <<"U0432", "U0430", "U043A", "U0430", "U043D",
                       "U0441", "U0438", "U044F">>,   \* вакансия
                     <<"U0432", "U0430", "U043A", "U0430", "U043D",
                       "U0441", "U0456", "U044F">> },   \* вакансія
        second |-> {},
        minSep |-> 1],
       [first  |-> { <<"U0440", "U043E", "U0437", "U0433", "U043B",
                       "U044F", "U0434", "U0430", "U0454">>,   \* розглядає
                     <<"U0440", "U0430", "U0441", "U0441", "U043C",
                       "U0430", "U0442", "U0440", "U0438", "U0432",
                       "U0430", "U0435", "U0442">> },   \* рассматривает
        second |-> { <<"U043F", "U043E", "U0441", "U0430", "U0434",
                       "U0438">>,   \* посади
                     <<"U0434", "U043E", "U043B", "U0436", "U043D",
                       "U043E", "U0441", "U0442", "U0438">> },   \* должности
        minSep |-> 0],
       [first  |-> { <<"U043F", "U043E", "U0437", "U0438", "U0446",
                       "U0438", "U044F">>,   \* позиция
                     <<"U043F", "U043E", "U0437", "U0438", "U0446",
                       "U0456", "U044F">> },   \* позиція
        second |-> {},
        minSep |-> 1],
       [first  |-> { Chars("position") },
        second |-> {},
        minSep |-> 1],
       [first  |-> { Chars("objective") },
        second |-> {},
        minSep |-> 1],
       [first  |-> { <<"U0446", "U0435", "U043B", "U044C">>,   \* цель
                     <<"U0446", "U0456", "U043B", "U044C">> },   \* ціль
        second |-> {},
        minSep |-> 1],
       [first  |-> { <<"U0438", "U0449", "U0443">>,   \* ищу
                     <<"U0448", "U0443", "U043A", "U0430", "U044E">> },   \* шукаю
        second |-> { <<"U0440", "U0430", "U0431", "U043E", "U0442",
                       "U0443">>,   \* работу
                     <<"U0440", "U043E", "U0431", "U043E", "U0442",
                       "U0443">> },   \* роботу
        minSep |-> 0] >>

\* [:\s\-\u2014] : what stands between a label and its value
LabelSep == Whitespace \cup {":", "-", EmDash}

RECURSIVE SkipLabelSep(_, _)
SkipLabelSep(t, i) ==
    IF i <= Len(t) /\ t[i] \in LabelSep THEN SkipLabelSep(t, i + 1) ELSE i

\* the position of the first line break at or after position i, or Len(t) + 1
RECURSIVE LineEnd(_, _)
LineEnd(t, i) == IF i <= Len(t) /\ t[i] # "\n" THEN LineEnd(t, i + 1) ELSE i

\* the positions after the label of pattern pat, for a label at position i of
\* the lower-case text: after `first`, or after `first`, \s+ and `second`
LabelEnds(lower, i, pat) ==
    LET afterFirst == {i + Len(w) : w \in {x \in pat.first : LiteralAt(lower, i, x)}}
    IN  IF pat.second = {} THEN afterFirst
        ELSE UNION { LET j == SkipWhitespace(lower, e)
                     IN  IF j = e THEN {}
                         ELSE {j + Len(w) :
                                  w \in {x \in pat.second : LiteralAt(lower, j, x)}}
                     : e \in afterFirst }

\* The group of the match of pattern pat that starts at position i, or None;
\* lower is t in lower case, for (?i).  The separator run is greedy and gives
\* characters back until the group can start: on a character that is no line
\* break.  The lazy group then runs to the first line break or to the end.
LabelMatchAt(t, lower, i, pat) ==
    LET ends == LabelEnds(lower, i, pat)
    IN  IF ends = {} THEN None
        ELSE LET e      == CHOOSE x \in ends : TRUE
                 j      == SkipLabelSep(t, e)
                 starts == {k \in (e + pat.minSep)..j : k <= Len(t) /\ t[k] # "\n"}
             IN  IF starts = {} THEN None
                 ELSE LET k == CHOOSE x \in starts : \A y \in starts : y <= x
                      IN  SubSeq(t, k, LineEnd(t, k) - 1)

\* re.search(pattern, t): the group of the leftmost match, or None.  A match
\* starts on the first letter of one of the alternatives of `first`.
LabelSearch(t, pat) ==
    LET lower    == ToLower(t)
        initials == {w[1] : w \in pat.first}
        hits     == {i \in 1..Len(t) : /\ lower[i] \in initials
                                       /\ LabelMatchAt(t, lower, i, pat) # None}
    IN  IF hits = {} THEN None
        ELSE LabelMatchAt(t, lower, CHOOSE i \in hits : \A k \in hits : i <= k,
                          pat)

\* re.sub(r'[...]+$', '', s) for the characters of `chars`
RECURSIVE StripTrailing(_, _)
StripTrailing(s, chars) ==
    IF s # <<>> /\ s[Len(s)] \in chars
    THEN StripTrailing(SubSeq(s, 1, Len(s) - 1), chars) ELSE s

\* the number of digits s ends with
RECURSIVE TrailingDigits(_)
TrailingDigits(s) ==
    IF s # <<>> /\ s[Len(s)] \in Digit
    THEN 1 + TrailingDigits(SubSeq(s, 1, Len(s) - 1)) ELSE 0

\* re.sub(r'\s+\d{6,}$', '', s)
StripTrailingId(s) ==
    LET d      == TrailingDigits(s)
        before == SubSeq(s, 1, Len(s) - d)
    IN  IF d >= 6 /\ before # <<>> /\ before[Len(before)] \in Whitespace
        THEN RStrip(before) ELSE s

\* lines 300-306: the cleaning of a label's group
CleanCapture(group) ==
    LET stripped  == Strip(group)
        trimmed   == Strip(StripTrailing(stripped, {"_", "-", EmDash, "."}))
        firstline == Strip(SplitOn(trimmed, "\n")[1])
    IN  StripTrailingId(firstline)

\* lines 298-309 for pattern p: the title it returns, or None
LabelResult(t, p) ==
    LET group == LabelSearch(FirstN(t, LabelWindow), position_patterns[p])
    IN  IF group = None THEN None
        ELSE LET title == CleanCapture(group)
             IN  IF 3 <= Len(title) /\ Len(title) <= 200 THEN title ELSE None

\* the loop of line 297 from pattern p on
RECURSIVE LabelTitleFrom(_, _)
LabelTitleFrom(t, p) ==
    IF p > Len(position_patterns) THEN None
    ELSE LET title == LabelResult(t, p)
         IN  IF title # None THEN title ELSE LabelTitleFrom(t, p + 1)

\* lines 312-330: the Ukrainian, Russian and English keywords
all_keywords ==
    { <<"U043C", "U0435", "U043D", "U0435", "U0434", "U0436", "U0435",
        "U0440">>,   \* менеджер
      <<"U0430", "U0434", "U043C", "U0456", "U043D", "U0456", "U0441",
        "U0442", "U0440", "U0430", "U0442", "U043E", "U0440">>,   \* адміністратор
      <<"U043F", "U0440", "U043E", "U0434", "U0430", "U0432", "U0435",
        "U0446", "U044C">>,   \* продавець
      <<"U043A", "U043E", "U043D", "U0441", "U0443", "U043B", "U044C",
        "U0442", "U0430", "U043D", "U0442">>,   \* консультант
      <<"U0441", "U043F", "U0435", "U0446", "U0456", "U0430", "U043B",
        "U0456", "U0441", "U0442">>,   \* спеціаліст
      <<"U043F", "U043E", "U043C", "U0456", "U0447", "U043D", "U0438",
        "U043A">>,   \* помічник
      <<"U043E", "U043F", "U0435", "U0440", "U0430", "U0442", "U043E",
        "U0440">>,   \* оператор
      <<"U043A", "U043E", "U043E", "U0440", "U0434", "U0438", "U043D",
        "U0430", "U0442", "U043E", "U0440">>,   \* координатор
      <<"U0430", "U0441", "U0438", "U0441", "U0442", "U0435", "U043D",
        "U0442">>,   \* асистент
      <<"U043A", "U0435", "U0440", "U0456", "U0432", "U043D", "U0438",
        "U043A">>,   \* керівник
      <<"U0431", "U0430", "U0440", "U0438", "U0441", "U0442", "U0430">>,   \* бариста
      <<"U043E", "U0444", "U0456", "U0441", "-", "U043C", "U0435",
        "U043D", "U0435", "U0434", "U0436", "U0435", "U0440">>,   \* офіс-менеджер
      <<"U0441", "U0435", "U043A", "U0440", "U0435", "U0442", "U0430",
        "U0440">>,   \* секретар
      <<"U0440", "U0435", "U043A", "U0440", "U0443", "U0442", "U0435",
        "U0440">>,   \* рекрутер
      <<"U0430", "U0434", "U043C", "U0438", "U043D", "U0438", "U0441",
        "U0442", "U0440", "U0430", "U0442", "U043E", "U0440">>,   \* администратор
      <<"U043F", "U0440", "U043E", "U0434", "U0430", "U0432", "U0435",
        "U0446">>,   \* продавец
      <<"U0441", "U043F", "U0435", "U0446", "U0438", "U0430", "U043B",
        "U0438", "U0441", "U0442">>,   \* специалист
      <<"U043F", "U043E", "U043C", "U043E", "U0449", "U043D", "U0438",
        "U043A">>,   \* помощник
      <<"U0430", "U0441", "U0441", "U0438", "U0441", "U0442", "U0435",
        "U043D", "U0442">>,   \* ассистент
      <<"U0440", "U0443", "U043A", "U043E", "U0432", "U043E", "U0434",
        "U0438", "U0442", "U0435", "U043B", "U044C">>,   \* руководитель
      <<"U043E", "U0444", "U0438", "U0441", "-", "U043C", "U0435",
        "U043D", "U0435", "U0434", "U0436", "U0435", "U0440">>,   \* офис-менеджер
      <<"U0441", "U0435", "U043A", "U0440", "U0435", "U0442", "U0430",
        "U0440", "U044C">>,   \* секретарь
      Chars("manager"),
      Chars("administrator"),
      Chars("seller"),
      Chars("consultant"),
      Chars("specialist"),
      Chars("assistant"),
      Chars("operator"),
      Chars("coordinator"),
      Chars("director"),
      Chars("supervisor"),
      Chars("barista"),
      Chars("recruiter"),
      Chars("designer"),
      Chars("developer"),
      Chars("engineer") }

HasKeyword(s) == \E keyword \in all_keywords : Contains(ToLower(s), keyword)

\* re.search(r'(@|https?://|www\.|\d{4}|\.com|\.ua|\.ru)', line)
KeywordLineSkipped(line) ==
    \/ \E marker \in {Chars("@"), Chars("http://"), Chars("https://"),
                      Chars("www."), Chars(".com"), Chars(".ua"), Chars(".ru")} :
           Contains(line, marker)
    \/ \E i \in 1..Len(line) : PlainDigits(line, i, 4) # 0

\* str.split(): the words between runs of white space
RECURSIVE SplitWords(_)
SplitWords(s) ==
    LET t == LStrip(s)
    IN  IF t = <<>> THEN <<>>
        ELSE LET e == CHOOSE i \in 1..(Len(t) + 1) :
                          /\ i > Len(t) \/ t[i] \in Whitespace
                          /\ \A j \in 1..(i - 1) : t[j] \notin Whitespace
             IN  <<SubSeq(t, 1, e - 1)>> \o SplitWords(SubSeq(t, e, Len(t)))

\* lines 355-364: the words from the first one that holds a keyword
RECURSIVE KeepFromKeyword(_, _)
KeepFromKeyword(words, started) ==
    IF words = <<>> THEN <<>>
    ELSE IF HasKeyword(Head(words)) \/ started
         THEN <<Head(words)>> \o KeepFromKeyword(Tail(words), TRUE)
    ELSE KeepFromKeyword(Tail(words), FALSE)

\* lines 344-376 for one line that holds a keyword: what is returned, if anything
KeywordLineResult(line) ==
    LET cleaned        == StripTrailingId(line)
        position_words_ == KeepFromKeyword(SplitWords(cleaned), FALSE)
        title          == StripTrailing(Strip(JoinWith(position_words_, <<" ">>)),
                                        {",", ";", ":", "."})
    IN  IF position_words_ # <<>> /\ 5 <= Len(title) /\ Len(title) <= 150
        THEN [value |-> title, via |-> "keyword"]
        ELSE IF 5 <= Len(cleaned) /\ Len(cleaned) <= 100
        THEN [value |-> cleaned, via |-> "line"]
        ELSE [value |-> None, via |-> "none"]

\* the loop of line 332 from line k on
RECURSIVE KeywordTitleFrom(_, _)
KeywordTitleFrom(lines, k) ==
    IF k > Len(lines) THEN [value |-> None, via |-> "none"]
    ELSE LET line == lines[k]
         IN  IF Len(line) > 150 \/ KeywordLineSkipped(line) \/ ~HasKeyword(line)
             THEN KeywordTitleFrom(lines, k + 1)
             ELSE LET result == KeywordLineResult(line)
                  IN  IF result.value # None THEN result
                      ELSE KeywordTitleFrom(lines, k + 1)

KeywordTitle(txt) == KeywordTitleFrom(FirstN(StrippedLines(txt), KeywordLines), 1)

\* extract_position_from_text with the keyword fallback tried first
extract_position_keyword_first(txt) ==
    LET byKeyword == KeywordTitle(txt)
        byLabel   == LabelTitleFrom(txt, 1)
    IN  IF txt = <<>> THEN [value |-> None, via |-> "none"]
        ELSE IF byKeyword.value # None THEN byKeyword
        ELSE IF byLabel # None THEN [value |-> byLabel, via |-> "label"]
        ELSE [value |-> None, via |-> "none"]

\* the title and the return statement that gave it
extract_position_from_text(txt) ==
    LET byLabel == LabelTitleFrom(txt, 1)
    IN  IF txt = <<>> THEN [value |-> None, via |-> "none"]
        ELSE IF byLabel # None THEN [value |-> byLabel, via |-> "label"]
        ELSE KeywordTitle(txt)

(***************************************************************************)
(* extract_position_from_filename                                          *)
(***************************************************************************)

\* "—", what stands in a record for a field that was not found
NotFound == <<EmDash>>

\* re.sub(r"\.[^.]+$", "", filename): the last dot and what follows it go,
\* when something follows it
RemoveExtension(filename) ==
    LET dots == {i \in 1..(Len(filename) - 1) :
                    /\ filename[i] = "."
                    /\ \A k \in (i + 1)..Len(filename) : filename[k] # "."}
    IN  IF dots = {} THEN filename
        ELSE SubSeq(filename, 1, (CHOOSE i \in dots : TRUE) - 1)

\* re.match(r'^\d+$', s): digits only, a final line break allowed by $
OnlyDigits(s) ==
    LET body == IF s # <<>> /\ s[Len(s)] = "\n" THEN SubSeq(s, 1, Len(s) - 1)
                ELSE s
    IN  body # <<>> /\ \A i \in 1..Len(body) : body[i] \in Digit

HexUpper == Chars("0123456789ABCDEF")
HexLower == Chars("0123456789abcdef")

IsHex(c) == c \in Range(HexUpper) \cup Range(HexLower)

HexValue(c) == (CHOOSE k \in 1..16 : HexUpper[k] = c \/ HexLower[k] = c) - 1

\* the characters U+0020 to U+007E, in order; the grave accent, which no
\* string literal can hold, is written as its code point
Printable ==
    Chars(" !\"#$%&'()*+,-./0123456789:;<=>?@ABCDEFGHIJKLMNOPQRSTUVWXYZ")
    \o Chars("[\\]^_") \o <<"U0060">> \o Chars("abcdefghijklmnopqrstuvwxyz{|}~")

\* the hexadecimal digits of n, four at least
RECURSIVE HexDigits(_, _)
HexDigits(n, width) ==
    IF n = 0 /\ width <= 0 THEN ""
    ELSE HexDigits(n \div 16, width - 1) \o HexUpper[(n % 16) + 1]

\* the character of code point n
CodePoint(n) ==
    IF n >= 32 /\ n <= 126 THEN Printable[n - 31]
    ELSE IF n = 9 THEN "\t"
    ELSE IF n = 10 THEN "\n"
    ELSE IF n = 13 THEN "\r"
    ELSE "U" \o HexDigits(n, 4)

\* U+FFFD, what decoding with errors='replace' puts for bytes that are no UTF-8
Replacement == "UFFFD"

\* urllib.parse.unquote_to_bytes: %XX with two hexadecimal digits is the byte
\* XX, and every other character stands for itself (byte -1: no escape)
RECURSIVE PercentItems(_)
PercentItems(s) ==
    IF s = <<>> THEN <<>>
    ELSE IF s[1] = "%" /\ Len(s) >= 3 /\ IsHex(s[2]) /\ IsHex(s[3])
         THEN <<[byte |-> 16 * HexValue(s[2]) + HexValue(s[3]), lit |-> ""]>>
              \o PercentItems(SubSeq(s, 4, Len(s)))
         ELSE <<[byte |-> -1, lit |-> s[1]]>> \o PercentItems(Tail(s))

\* the continuation bytes the lead byte b of a UTF-8 sequence asks for; 0 for
\* a byte that leads no sequence
Continuations(b) ==
    IF b >= 194 /\ b <= 223 THEN 1
    ELSE IF b >= 224 /\ b <= 239 THEN 2
    ELSE IF b >= 240 /\ b <= 244 THEN 3
    ELSE 0

\* the bytes that may stand at place j after the lead byte b
ContinuationRange(b, j) ==
    IF j > 1 THEN 128..191
    ELSE IF b = 224 THEN 160..191
    ELSE IF b = 237 THEN 128..159
    ELSE IF b = 240 THEN 144..191
    ELSE IF b = 244 THEN 128..143
    ELSE 128..191

\* how many of the items after the first continue the sequence its byte leads
RECURSIVE ValidContinuations(_, _)
ValidContinuations(items, j) ==
    IF /\ j <= Continuations(items[1].byte)
       /\ j + 1 <= Len(items)
       /\ items[j + 1].byte \in ContinuationRange(items[1].byte, j)
    THEN ValidContinuations(items, j + 1)
    ELSE j - 1

\* the code point of a complete sequence at the head of items
SequenceValue(items) ==
    LET b    == items[1].byte
        c(j) == items[j + 1].byte - 128
    IN  IF Continuations(b) = 1 THEN (b - 192) * 64 + c(1)
        ELSE IF Continuations(b) = 2
             THEN (b - 224) * 4096 + c(1) * 64 + c(2)
        ELSE (b - 240) * 262144 + c(1) * 4096 + c(2) * 64 + c(3)

\* bytes.decode('utf-8', errors='replace') over the escapes, the characters
\* that were no escape staying as they are: a complete sequence is its
\* character, and a byte that leads none, or a sequence cut short, is U+FFFD
RECURSIVE DecodeItems(_)
DecodeItems(items) ==
    IF items = <<>> THEN <<>>
    ELSE LET b == items[1].byte
         IN  IF b < 0 THEN <<items[1].lit>> \o DecodeItems(Tail(items))
             ELSE IF b < 128 THEN <<CodePoint(b)>> \o DecodeItems(Tail(items))
             ELSE LET need == Continuations(b)
                      got  == ValidContinuations(items, 1)
                  IN  IF need > 0 /\ got = need
                      THEN <<CodePoint(SequenceValue(items))>>
                           \o DecodeItems(SubSeq(items, need + 2, Len(items)))
                      ELSE <<Replacement>>
                           \o DecodeItems(SubSeq(items, got + 2, Len(items)))

\* urllib.parse.unquote(s)
unquote(s) == DecodeItems(PercentItems(s))

\* re.sub(pattern, repl, t) from position i on, for a pattern that matches no
\* empty string: ends[i] is the position after the match that starts at i, and
\* 0 when none starts there
RECURSIVE SubFrom(_, _, _, _)
SubFrom(t, ends, i, repl) ==
    IF i > Len(t) THEN <<>>
    ELSE IF ends[i] > i THEN repl \o SubFrom(t, ends, ends[i], repl)
    ELSE <<t[i]>> \o SubFrom(t, ends, i + 1, repl)

\* re.sub('(?i)' + word, ' ', t)
BlankWord(t, word) ==
    LET lower == ToLower(t)
        ends  == [i \in 1..Len(t) |->
                     IF LiteralAt(lower, i, word) THEN i + Len(word) ELSE 0]
    IN  SubFrom(t, ends, 1, <<" ">>)

\* re.sub(r'(?i)\bcv\b', ' ', t)
BlankCv(t) ==
    LET lower == ToLower(t)
        ends  == [i \in 1..Len(t) |->
                     IF /\ LiteralAt(lower, i, Chars("cv"))
                        /\ WordBoundary(t, i)
                        /\ WordBoundary(t, i + 2)
                     THEN i + 2 ELSE 0]
    IN  SubFrom(t, ends, 1, <<" ">>)

\* the length of the run of digits that starts at position i
RECURSIVE DigitRun(_, _)
DigitRun(t, i) ==
    IF i <= Len(t) /\ t[i] \in Digit THEN 1 + DigitRun(t, i + 1) ELSE 0

\* re.sub(r'\b\d{10,}\b', ' ', t): a run of ten digits or more with no word
\* character on either side
BlankLongNumbers(t) ==
    LET ends == [i \in 1..Len(t) |->
                    LET run == DigitRun(t, i)
                    IN  IF /\ run >= 10
                           /\ WordBoundary(t, i)
                           /\ WordBoundary(t, i + run)
                        THEN i + run ELSE 0]
    IN  SubFrom(t, ends, 1, <<" ">>)

\* [-./]
DateSep == {"-", ".", "/"}

\* The position after the match of \d{2,4}[-./]\d{1,2}[-./]\d{2,4} at i, or 0.
\* The first two groups are followed by a separator, so each is a whole run of
\* digits; the last takes up to four digits of its run.
DateEnd(t, i) ==
    LET first  == DigitRun(t, i)
        j      == i + first + 1
        second == DigitRun(t, j)
        k      == j + second + 1
        third  == DigitRun(t, k)
    IN  IF /\ first \in 2..4
           /\ i + first <= Len(t) /\ t[i + first] \in DateSep
           /\ second \in 1..2
           /\ j + second <= Len(t) /\ t[j + second] \in DateSep
           /\ third >= 2
        THEN k + Min(third, 4) ELSE 0

\* re.sub(r'\d{2,4}[-./]\d{1,2}[-./]\d{2,4}', ' ', t)
BlankDates(t) ==
    SubFrom(t, [i \in 1..Len(t) |-> DateEnd(t, i)], 1, <<" ">>)

\* [_\-—,\.]
NamePunctuation == {"_", "-", EmDash, ",", "."}

\* the position after the run of such characters that starts at i
RECURSIVE SkipNamePunctuation(_, _)
SkipNamePunctuation(t, i) ==
    IF i <= Len(t) /\ t[i] \in NamePunctuation
    THEN SkipNamePunctuation(t, i + 1) ELSE i

\* re.sub(r"[_\-—,\.]+", " ", t)
BlankPunctuation(t) ==
    SubFrom(t, [i \in 1..Len(t) |-> SkipNamePunctuation(t, i)], 1, <<" ">>)

\* lines 396-397: the words that say nothing of a position
BlankNoise(t) ==
    LET workua == BlankWord(t, Chars("workua"))
        work   == BlankWord(workua, Chars("work.ua"))
        rezume == BlankWord(work, <<"U0440", "U0435", "U0437", "U044E",
                                    "U043C", "U0435">>)
        resume == BlankWord(rezume, Chars("resume"))
    IN  BlankCv(resume)

\* lines 381-404
extract_position_from_filename(filename) ==
    LET stem == RemoveExtension(filename)
    IN  IF OnlyDigits(stem) THEN NotFound
        ELSE LET unquoted   == unquote(stem)
                 words      == BlankNoise(unquoted)
                 numbers    == BlankLongNumbers(words)
                 dates      == BlankDates(numbers)
                 punctuated == BlankPunctuation(dates)
                 name_clean == Strip(CollapseWhitespace(punctuated))
             IN  IF name_clean # <<>> THEN name_clean ELSE NotFound

\* the counts before a batch has begun
NoStats ==
    [fio_found |-> 0, position_found |-> 0, phone_found |-> 0, total |-> 0]

(***************************************************************************)
(* Inputs of the phone extractor                                           *)
(***************************************************************************)

\* The most pieces an input text is put together from.
MaxPieces == 4

PhonePieces ==
    { <<"+">>, <<" ">>, <<"-">>, <<"a">>, <<"0">>, <<"1">>,
      <<"3", "8", "0">>,
      <<"5", "0", "1", "2", "3", "4", "5", "6", "7">> }

\* The digit sequences of the false-positive examples: a year-like date, ten
\* identical digits, a 14-digit number.
ExampleTexts ==
    { <<"1", "9", "9", "0", "1", "2", "3", "1">>,
      <<"1", "1", "1", "1", "1", "1", "1", "1", "1", "1">>,
      <<"1", "2", "3", "4", "5", "6", "7", "8", "9", "0", "1", "2", "3", "4">> }

PhoneTexts ==
    { Flatten(ps) : ps \in UNION { [1..n -> PhonePieces] : n \in 0..MaxPieces } }
    \cup ExampleTexts

Init ==
    /\ text \in PhoneTexts
    /\ pc = "start"
    /\ phone = None
    /\ matched = <<>>
    /\ phones = <<>>
    /\ best = None
    /\ fio = None
    /\ position = None
    /\ via = "none"
    /\ uploaded = <<>>
    /\ rows = <<>>
    /\ stats = NoStats

CleanPhone ==
    /\ pc = "start"
    /\ phone' = clean_phone(text)
    /\ pc' = "cleaned"
    /\ UNCHANGED <<text, matched, phones, best, fio, position, via,
                 uploaded, rows, stats>>

FindAllPhones ==
    /\ pc = "start"
    /\ matched' = AllMatches(text)
    /\ phones' = find_all_phones(text)
    /\ pc' = "found"
    /\ UNCHANGED <<text, phone, best, fio, position, via,
                 uploaded, rows, stats>>

BestPhone ==
    /\ pc = "found"
    /\ best' = best_phone(text)
    /\ pc' = "done"
    /\ UNCHANGED <<text, phone, matched, phones, fio, position, via,
                 uploaded, rows, stats>>

Next == CleanPhone \/ FindAllPhones \/ BestPhone

Spec == Init /\ [][Next]_vars

(***************************************************************************)
(* Inputs of the name extractor                                            *)
(***************************************************************************)

\* The most filler lines between the first and the last line of a text.
MaxFiller == 19

FioLines ==
    { Chars("Petrenko Ivan Mykolayovych"),
      Chars("Ivan Petrenko"),
      Chars("Manager Svitlana Boiko"),
      Chars("ivan@mail.com"),
      Chars("site.ua/ivan"),
      Chars("Born 1990"),
      Chars("Date 01.02.1985"),
      Chars("Code 12345678901"),
      Chars("Experience Kyiv Lviv"),
     \* Іван Петренко
      <<"U0406", "U0432", "U0430", "U043D">> \o Chars(" ") \o <<"U041F",
        "U0435", "U0442", "U0440", "U0435", "U043D", "U043A", "U043E">>,
     \* Резюме Олена Коваль
      <<"U0420", "U0435", "U0437", "U044E", "U043C", "U0435">>
        \o Chars(" ") \o <<"U041E", "U043B", "U0435", "U043D", "U0430">>
        \o Chars(" ") \o <<"U041A", "U043E", "U0432", "U0430", "U043B",
        "U044C">> }

\* k lines "x", each ended by a line break
RECURSIVE Filler(_)
Filler(k) == IF k = 0 THEN <<>> ELSE Chars("x\n") \o Filler(k - 1)

FioTexts ==
    {<<>>} \cup FioLines
    \cup { a \o <<"\n">> \o Filler(k) \o b :
             a \in FioLines, b \in FioLines, k \in 0..MaxFiller }

InitFio ==
    /\ text \in FioTexts
    /\ pc = "start"
    /\ phone = None
    /\ matched = <<>>
    /\ phones = <<>>
    /\ best = None
    /\ fio = None
    /\ position = None
    /\ via = "none"
    /\ uploaded = <<>>
    /\ rows = <<>>
    /\ stats = NoStats

ExtractFio ==
    /\ pc = "start"
    /\ fio' = extract_fio_from_text(text)
    /\ pc' = "fio"
    /\ UNCHANGED <<text, phone, matched, phones, best, position, via,
                 uploaded, rows, stats>>

NextFio == ExtractFio

SpecFio == InitFio /\ [][NextFio]_vars

(***************************************************************************)
(* Inputs of the title extractor                                           *)
(***************************************************************************)

\* The most lines of a text.
MaxLines == 3

PositionLines ==
    { Chars("Desired position: Sales Manager"),
      Chars("manager"),
      Chars("Objective: Senior developer."),
      Chars("Position: ab"),
      Chars("Position:"),
      Chars("Position: Manager - 1234567"),
      Chars("Ivan Manager, sales."),
      Chars("Sales manager 1234567"),
     \* Посада: Менеджер
      <<"U041F", "U043E", "U0441", "U0430", "U0434", "U0430">>
        \o Chars(": ") \o <<"U041C", "U0435", "U043D", "U0435", "U0434",
        "U0436", "U0435", "U0440">>,
     \* Бажана посада — Продавець
      <<"U0411", "U0430", "U0436", "U0430", "U043D", "U0430">>
        \o Chars(" ") \o <<"U043F", "U043E", "U0441", "U0430", "U0434",
        "U0430">> \o Chars(" ") \o <<"U2014">> \o Chars(" ") \o <<"U041F",
        "U0440", "U043E", "U0434", "U0430", "U0432", "U0435", "U0446",
        "U044C">> }

PositionTexts ==
    { JoinWith(ls, <<"\n">>) :
          ls \in UNION { [1..n -> PositionLines] : n \in 0..MaxLines } }

InitPosition ==
    /\ text \in PositionTexts
    /\ pc = "start"
    /\ phone = None
    /\ matched = <<>>
    /\ phones = <<>>
    /\ best = None
    /\ fio = None
    /\ position = None
    /\ via = "none"
    /\ uploaded = <<>>
    /\ rows = <<>>
    /\ stats = NoStats

ExtractPosition ==
    /\ pc = "start"
    /\ LET result == extract_position_from_text(text)
       IN  position' = result.value /\ via' = result.via
    /\ pc' = "position"
    /\ UNCHANGED <<text, phone, matched, phones, best, fio,
                 uploaded, rows, stats>>

NextPosition == ExtractPosition

SpecPosition == InitPosition /\ [][NextPosition]_vars

(***************************************************************************)
(* The batch loop                                                          *)
(***************************************************************************)

\* The most documents of an upload.
MaxDocs == 3

\* what a container that cannot be read holds in place of a text
Corrupt == <<"<Corrupt>">>

\* read_file(uf), lines 132-142: the text of the container.  read_pdf and
\* read_docx open the container outside any try, so that a container that
\* cannot be read raises.
Readable(uf) == uf.data # Corrupt

read_file(uf) == uf.data

\* x or "—"; the fields of a record stand for the keys "Файл", "ПІБ",
\* "Бажана посада" and "Телефон"
OrNotFound(x) == IF x = None \/ x = <<>> THEN NotFound ELSE x

\* lines 438-443, with every field counted whatever it holds
UpdateStatsUnconditionally(counts, record) ==
    [counts EXCEPT !.fio_found = @ + 1,
                   !.position_found = @ + 1,
                   !.phone_found = @ + 1]

\* lines 438-443
UpdateStats(counts, record) ==
    [counts EXCEPT
        !.fio_found      = IF record.fio # NotFound THEN @ + 1 ELSE @,
        !.position_found = IF record.position # NotFound THEN @ + 1 ELSE @,
        !.phone_found    = IF record.phone # NotFound THEN @ + 1 ELSE @]

\* The documents the uploads are made of: the file names and texts that give
\* every field found, every field not found, and a title from the file name.
Documents ==
    { [name |-> Chars("12345.pdf"), data |-> <<>>],
      [name |-> Chars("Sales_Manager.docx"), data |-> <<>>],
      [name |-> Chars("cv.pdf"), data |-> Chars("Ivan Petrenko\n0501234567")],
      [name |-> Chars("12345.pdf"),
       data |-> Chars("Position: Sales Manager\n501234567")],
      [name |-> Chars("%D0%9F%D1%80%D0%BE%D0%B4%D0%B0%D0%B2%D0%B5%D1%86%D1%8C.pdf"),
       data |-> Chars("1990")],
      [name |-> Chars("resume.pdf"), data |-> Corrupt] }

Uploads == UNION { [1..n -> Documents] : n \in 0..MaxDocs }

InitBatch ==
    /\ uploaded \in Uploads
    /\ text = <<>>
    /\ pc = "start"
    /\ phone = None
    /\ matched = <<>>
    /\ phones = <<>>
    /\ best = None
    /\ fio = None
    /\ position = None
    /\ via = "none"
    /\ rows = <<>>
    /\ stats = NoStats

\* lines 421-424
StartBatch ==
    /\ pc = "start"
    /\ uploaded # <<>>
    /\ rows' = <<>>
    /\ stats' = [NoStats EXCEPT !.total = Len(uploaded)]
    /\ pc' = "loop"
    /\ UNCHANGED <<text, phone, matched, phones, best, fio, position, via,
                   uploaded>>

\* lines 421 and 552-553: nothing was uploaded
NoUpload ==
    /\ pc = "start"
    /\ uploaded = <<>>
    /\ pc' = "idle"
    /\ UNCHANGED <<text, phone, matched, phones, best, fio, position, via,
                   uploaded, rows, stats>>

\* lines 431-435 and 445-450: the record made of what the extractors gave for
\* the text and of what the file name gives
RecordFrom(filename, name, title, number) ==
    [file     |-> filename,
     fio      |-> OrNotFound(name),
     position |-> IF title # None /\ title # <<>> THEN title
                  ELSE extract_position_from_filename(filename),
     phone    |-> OrNotFound(number)]

\* lines 427-435: a turn of the loop reads the document after those that have
\* a record and runs the three extractors over its text
ExtractFields ==
    /\ pc = "loop"
    /\ Len(rows) < Len(uploaded)
    /\ Readable(uploaded[Len(rows) + 1])
    /\ text' = read_file(uploaded[Len(rows) + 1])
    /\ fio' = extract_fio_from_text(text')
    /\ position' = extract_position_from_text(text').value
    /\ phones' = find_all_phones(text')
    /\ best' = best_phone_of(phones')
    /\ pc' = "extracted"
    /\ UNCHANGED <<phone, matched, via, uploaded, rows, stats>>

\* lines 434-450: the turn ends with the counts raised and the record appended
AppendRecord ==
    /\ pc = "extracted"
    /\ LET record == RecordFrom(uploaded[Len(rows) + 1].name, fio, position,
                                best)
       IN  /\ stats' = UpdateStats(stats, record)
           /\ rows' = Append(rows, record)
    /\ pc' = "loop"
    /\ UNCHANGED <<text, phone, matched, phones, best, fio, position, via,
                   uploaded>>

\* line 428, for a container that cannot be read: the exception ends the run
ReadFails ==
    /\ pc = "loop"
    /\ Len(rows) < Len(uploaded)
    /\ ~Readable(uploaded[Len(rows) + 1])
    /\ pc' = "raised"
    /\ UNCHANGED <<text, phone, matched, phones, best, fio, position, via,
                   uploaded, rows, stats>>

\* lines 485-495: the loop is over, the records and the counts are shown
ShowResults ==
    /\ pc = "loop"
    /\ Len(rows) = Len(uploaded)
    /\ pc' = "done"
    /\ UNCHANGED <<text, phone, matched, phones, best, fio, position, via,
                   uploaded, rows, stats>>

NextBatch ==
    \/ StartBatch
    \/ NoUpload
    \/ ExtractFields
    \/ AppendRecord
    \/ ReadFails
    \/ ShowResults

SpecBatch == InitBatch /\ [][NextBatch]_vars

(***************************************************************************)
(* The phone extractor's properties                                        *)
(***************************************************************************)

Tel0   == <<"0", "5", "0", "1", "2", "3", "4", "5", "6", "7">>
Tel380 == <<"3", "8", "0", "5", "0", "1", "2", "3", "4", "5", "6", "7">>
Tel9   == <<"5", "0", "1", "2", "3", "4", "5", "6", "7">>

\* What the format rules give for s, stated on the digit core of s and on the
\* first character of s that is a digit or a '+'.
FormatRules(s) ==
    LET core == SelectSeq(s, IsDigit)
        kept == SelectSeq(s, LAMBDA c : c \in Digit \cup {"+"})
    IN  IF Len(core) = 10 /\ core[1] = "0" THEN core
        ELSE IF Len(core) = 12 /\ SubSeq(core, 1, 3) = <<"3", "8", "0">>
             THEN <<"+">> \o core
        ELSE IF Len(core) = 9 THEN <<"0">> \o core
        ELSE IF Len(core) \in 9..13
             THEN IF kept[1] = "+" THEN <<"+">> \o core ELSE core
        ELSE None

\* C1: clean_phone(s) is what the format rules give, in their precedence order,
\* on the digit core of s: the bare 10 digits for a 10-digit core starting with
\* 0, '+' and the 12 digits for a 12-digit core starting with 380, '0' and the
\* 9 digits for a 9-digit core, the digits with a '+' in front only if the first
\* kept character was a '+' for any other core of 9 to 13 digits, and no result
\* otherwise; the four examples of the round trip come out as stated.
C1_FormatRules ==
    pc = "cleaned" =>
        /\ phone = FormatRules(text)
        /\ text = Tel0 => phone = Tel0
        /\ text = <<"+">> \o Tel380 => phone = <<"+">> \o Tel380
        /\ text = Tel380 => phone = <<"+">> \o Tel380
        /\ text = Tel9 => phone = Tel0

\* C1's case: a core of 10 digits not starting with 0, behind a '+', with a
\* second '+' further on, which is dropped.
C1_Witness ==
    /\ pc = "cleaned"
    /\ text = <<"+", "1", "+">> \o Tel9
    /\ phone = <<"+", "1">> \o Tel9

\* the match that first gave the candidate p, as a position in `matched`
FirstMatch(p) ==
    CHOOSE k \in 1..Len(matched) :
        /\ clean_phone(matched[k].raw) = p
        /\ \A j \in 1..(k - 1) : clean_phone(matched[j].raw) # p

\* where in the text the earliest match that normalizes to p starts
FirstStart(p) ==
    LET starts == {matched[k].start : k \in {j \in 1..Len(matched) :
                                              clean_phone(matched[j].raw) = p}}
    IN  CHOOSE x \in starts : \A y \in starts : x <= y

\* C2 as stated: the candidates are in document order, a candidate whose earliest
\* match starts before another's comes before it in the list.
C2_DocumentOrder ==
    pc = "found" =>
        \A i, j \in 1..Len(phones) :
            FirstStart(phones[i]) < FirstStart(phones[j]) => i < j

\* C2, amended: the candidates are in the order of the loops, by pattern first
\* and by position in the text second: a candidate comes before another exactly
\* when the first match that gives it, taken by (pattern, start), comes first.
C2_PatternThenPosition ==
    pc = "found" =>
        \A i, j \in 1..Len(phones) :
            LET a == matched[FirstMatch(phones[i])]
                b == matched[FirstMatch(phones[j])]
            IN  i < j <=> \/ a.pat < b.pat
                          \/ a.pat = b.pat /\ a.start < b.start

\* C2's case: two candidates, the second of which starts earlier in the text.
C2_Witness ==
    /\ pc = "found"
    /\ Len(phones) >= 2
    /\ FirstStart(phones[2]) < FirstStart(phones[1])

\* the length of the run of digits of t that position i lies in
RECURSIVE RunStart(_, _)
RunStart(t, i) == IF i > 1 /\ t[i - 1] \in Digit THEN RunStart(t, i - 1) ELSE i

RECURSIVE RunEnd(_, _)
RunEnd(t, i) == IF i < Len(t) /\ t[i + 1] \in Digit THEN RunEnd(t, i + 1) ELSE i

RunLength(t, i) == RunEnd(t, i) - RunStart(t, i) + 1

\* the digits of t are one contiguous run of more than 13 digits
OneLongRun(t) ==
    \E i \in 1..Len(t) :
        /\ t[i] \in Digit
        /\ RunLength(t, i) > 13
        /\ \A k \in 1..Len(t) : t[k] \in Digit => RunStart(t, k) = RunStart(t, i)

\* C3 as stated: a text whose only digits are one run of more than 13 digits, the
\* text "19901231" and the text "1111111111" give no candidate, and no candidate
\* is built from part of a run of more than 13 digits.
C3_LongRunsRejected ==
    pc = "found" =>
        LET t == CollapseWhitespace(text)
        IN  /\ OneLongRun(t) => phones = <<>>
            /\ text = <<"1", "9", "9", "0", "1", "2", "3", "1">> => phones = <<>>
            /\ text = <<"1", "1", "1", "1", "1", "1", "1", "1", "1", "1">>
                   => phones = <<>>
            /\ \A k \in 1..Len(matched) :
                   clean_phone(matched[k].raw) \in Range(phones) =>
                       \A i \in 0..(Len(matched[k].raw) - 1) :
                           t[matched[k].start + i] \in Digit
                               => RunLength(t, matched[k].start + i) <= 13

WellFormedPhone(p) ==
    /\ \A i \in 1..Len(p) : p[i] \in Digit \cup {"+"}
    /\ \A i \in 2..Len(p) : p[i] # "+"
    /\ Len(SelectSeq(p, IsDigit)) \in 9..13

\* C5: every value clean_phone gives and every candidate of find_all_phones is
\* made of digits and at most one '+', the '+' first, with 9 to 13 digits.
C5_WellFormed ==
    /\ pc = "cleaned" /\ phone # None => WellFormedPhone(phone)
    /\ pc \in {"found", "done"} =>
           \A i \in 1..Len(phones) : WellFormedPhone(phones[i])

\* C5's case: a value given for an input with a '+' after a digit.
C5_Witness ==
    /\ pc = "cleaned"
    /\ phone # None
    /\ \E i \in 2..Len(text) : text[i] = "+" /\ text[i - 1] \in Digit

\* C6: a value clean_phone gives is a fixed point of clean_phone.
C6_Idempotent ==
    pc = "cleaned" /\ phone # None => clean_phone(phone) = phone

\* C6's case: a 9-digit input behind a '+', which gets its '0' and loses its '+'.
C6_Witness ==
    /\ pc = "cleaned"
    /\ text = <<"+">> \o Tel9
    /\ phone = Tel0
    /\ clean_phone(phone) = phone

(***************************************************************************)
(* The name extractor's properties                                         *)
(***************************************************************************)

\* the non-empty lines of the text as it is given, the first 50 of them
LinesOfText(txt) == FirstN(StrippedLines(txt), SearchLines)

\* C7 as stated: the exclusion filters act per line.  A name that is returned
\* is a candidate of a line of the text that no filter excludes, and a line
\* that a filter excludes does not keep the candidates of the other lines from
\* being taken: when some line gives a candidate, a name is returned.
C7_PerLineExclusion ==
    pc = "fio" =>
        LET candidates == FioCandidates(LinesOfText(text))
        IN  /\ fio # None =>
                   \E k \in 1..Len(candidates) : candidates[k].fio = fio
            /\ candidates # <<>> => fio # None

\* C8 as stated: the name returned is that of the candidate with the greatest
\* score, the score being computed with the index of the candidate's line among
\* the non-empty lines of the text and with the length and keywords of that
\* line, the first of equal scores winning.
C8_MaxScore ==
    pc = "fio" => fio = BestFio(FioCandidates(LinesOfText(text)))

(***************************************************************************)
(* The title extractor's properties                                        *)
(***************************************************************************)

\* the patterns whose match in the first 4000 characters has a cleaned group of
\* 3 to 200 characters
PatternsWithTitle(txt) ==
    {p \in 1..Len(position_patterns) :
        LET group == LabelSearch(FirstN(txt, LabelWindow), position_patterns[p])
        IN  group # None /\ Len(CleanCapture(group)) \in 3..200}

\* C9: when some label pattern matches in the first 4000 characters with a
\* cleaned group of 3 to 200 characters, the result is the cleaned group of the
\* earliest such pattern of the list, whatever lines hold a profession keyword;
\* the keyword fallback gives the result only when no label pattern did.  The
\* text of "Desired position: Sales Manager" and a line "manager" gives
\* "Sales Manager".
C9_LabelWins ==
    pc = "position" =>
        LET good == PatternsWithTitle(text)
        IN  /\ good # {} =>
                   LET p == CHOOSE x \in good : \A y \in good : x <= y
                   IN  /\ via = "label"
                       /\ position = CleanCapture(
                              LabelSearch(FirstN(text, LabelWindow),
                                          position_patterns[p]))
            /\ via \in {"keyword", "line"} => good = {}
            /\ text = Chars("Desired position: Sales Manager\nmanager")
                   => position = Chars("Sales Manager")

\* C9's case: a label gives the title although an earlier line holds a keyword
\* from which the fallback would have made another title.
C9_Witness ==
    /\ pc = "position"
    /\ via = "label"
    /\ text = Chars("manager\nDesired position: Sales Manager")
    /\ position = Chars("Sales Manager")
    /\ KeywordTitle(text).value = Chars("manager")

\* C10 as stated: a title found by a label has 3 to 200 characters, one found
\* by keyword 5 to 150, and no title ends with a run of the punctuation or
\* dashes that the cleaning of its branch takes off ('_', '-', '—', '.' for a label,
\* ',', ';', ':', '.' for a keyword) or with a run of 6 or more digits.
C10_BoundedTrimmed ==
    pc = "position" /\ position # None =>
        /\ via = "label" =>
               /\ Len(position) \in 3..200
               /\ position[Len(position)] \notin {"_", "-", EmDash, "."}
        /\ via \in {"keyword", "line"} =>
               /\ Len(position) \in 5..150
               /\ position[Len(position)] \notin {",", ";", ":", "."}
        /\ TrailingDigits(position) < 6


(***************************************************************************)
(* The batch loop's properties                                             *)
(***************************************************************************)

\* the record of the document read last
LastRow == rows[Len(rows)]

\* the record the extractors give for a document
RecordOf(uf) ==
    RecordFrom(uf.name,
               extract_fio_from_text(uf.data),
               extract_position_from_text(uf.data).value,
               best_phone(uf.data))

\* what the extractors left for a document whose text is empty
EmptyTextResults ==
    (pc \in {"loop", "done", "raised"} /\ rows # <<>> /\ text = <<>>) =>
        /\ phones = <<>>
        /\ best = None
        /\ fio = None
        /\ position = None
        /\ LastRow.fio = NotFound
        /\ LastRow.phone = NotFound
        /\ LastRow.position = extract_position_from_filename(LastRow.file)

\* a turn of the loop at a document whose text is empty goes through the
\* extractors to its record
EmptyTextStep ==
    /\ (/\ pc = "loop"
        /\ Len(rows) < Len(uploaded)
        /\ uploaded[Len(rows) + 1].data = <<>>) =>
           /\ pc' = "extracted"
           /\ text' = <<>>
    /\ (pc = "extracted" /\ text = <<>>) =>
           /\ pc' = "loop"
           /\ Len(rows') = Len(rows) + 1

\* C11: empty input is no error.  For a document whose text is empty each
\* extractor finishes and reports no result: find_all_phones gives the empty
\* list, and best_phone, extract_fio_from_text and extract_position_from_text
\* give None, so that the record holds the not-found sentinel for the name and
\* the phone and, for the title, what the file name gives.  The turn of the loop
\* for such a document ends in its record and never in an exception.
C11_EmptyInput == []EmptyTextResults /\ [][EmptyTextStep]_vars

\* An empty document after one that gave a name and a phone: its record has no
\* field found, and nothing of the document before it.
C11_Witness ==
    /\ pc = "done"
    /\ Len(rows) = 2
    /\ text = <<>>
    /\ uploaded[2].data = <<>>
    /\ rows[1].fio = Chars("Ivan Petrenko")
    /\ rows[1].phone = Chars("0501234567")
    /\ rows[2] = [file |-> Chars("12345.pdf"), fio |-> NotFound,
                  position |-> NotFound, phone |-> NotFound]


\* how many of the records hold something found in the field Field(record)
Found(Field(_)) ==
    Cardinality({k \in 1..Len(rows) : Field(rows[k]) # NotFound})

\* the records are those of the documents, one for each and in their order
RowsMatchInputs ==
    pc = "done" =>
        /\ Len(rows) = Len(uploaded)
        /\ \A k \in 1..Len(rows) :
               /\ rows[k].file = uploaded[k].name
               /\ rows[k] = RecordOf(uploaded[k])

\* the counts are those of the records there are
CountsMatchRows ==
    pc \in {"loop", "extracted", "done", "raised"} =>
        /\ stats.total = Len(uploaded)
        /\ stats.fio_found = Found(LAMBDA r : r.fio)
        /\ stats.position_found = Found(LAMBDA r : r.position)
        /\ stats.phone_found = Found(LAMBDA r : r.phone)
        /\ {stats.fio_found, stats.position_found, stats.phone_found}
               \subseteq 0..Len(rows)
        /\ Len(rows) <= stats.total

\* a step leaves every record there is as it is
RowsKept ==
    \A k \in 1..Len(rows) : k <= Len(rows') /\ rows'[k] = rows[k]

\* C12: the batch keeps its counts consistent with its records.  When the loop
\* has processed the n uploaded documents there are n records, one for each
\* document and in their order, stats['total'] is n, and each of fio_found,
\* position_found and phone_found is the number of records whose field is not
\* the sentinel, so between 0 and n; the counts agree with the records after
\* every turn of the loop as well.  No step changes a record that exists.
C12_CountsMatchRecords ==
    [](RowsMatchInputs /\ CountsMatchRows) /\ [][RowsKept]_vars

\* Three documents: one gives a name and a phone, one a title from its file
\* name, one nothing; each count is 1 of 3.
C12_Witness ==
    /\ pc = "done"
    /\ Len(rows) = 3
    /\ stats = [fio_found |-> 1, position_found |-> 1, phone_found |-> 1,
                total |-> 3]
    /\ rows[1].fio = Chars("Ivan Petrenko")
    /\ rows[1].position = NotFound
    /\ rows[2].position = Chars("Sales Manager")
    /\ rows[2].file = Chars("Sales_Manager.docx")
    /\ rows[3].position = NotFound
    /\ rows[3].phone = NotFound

=============================================================================
